---- MODULE Spec2Model ----
(***************************************************************************)
(* A model of the waldiez_jupyter server extension:                        *)
(*   - handlers/extra_static_files.py : the monaco-editor asset cache      *)
(*   - handlers/__init__.py, __init__.py : extension loading               *)
(*   - handlers/files_handler.py : GET and POST /waldiez/files             *)
(*   - handlers/upload_handler.py : POST /waldiez/upload                   *)
(*   - handlers/interrupt_handler.py, handlers/checkpoints_handler.py      *)
(* Time is counted in hours.  Strings of the program are TLA+ strings; a   *)
(* missing JSON field and an empty one are both "" (the code tests them    *)
(* with truthiness only).                                                  *)
(***************************************************************************)
EXTENDS Integers, Sequences, FiniteSets, TLC

VARIABLES now,       \* the wall clock, in hours
          cache,     \* the file monaco_details.json of the static directory
          vs,        \* the directory vs of the static directory
          minmaps,   \* the directory min-maps of the static directory
          res,       \* what the last invocation of ensure_extra_static_files did
          calls,     \* the number of invocations of ensure_extra_static_files
          ext,       \* the extension in the server process: unloaded, loaded, failed
          handlers,  \* the routes added to the web application
          procs,     \* server processes that are inside ensure_extra_static_files
          cwd,       \* the working directory of the server process
          fs,        \* the files the request handlers see
          data,      \* the bytes of those files
          req,       \* the last HTTP request served
          resp,      \* the answer to it
          log,       \* the errors logged while it was served
          served,    \* the number of HTTP requests served
          handled,   \* the number of entries of files lists handled by POST /waldiez/files
          inflight,  \* the requests that one server process handles concurrently
          accepted   \* the uploads answered with 200, in the order they were served

assetVars == <<now, cache, vs, minmaps, res, calls, ext, handlers, procs>>
fileVars == <<cwd, fs, data, req, resp, log, served, handled, inflight, accepted>>
vars == <<now, cache, vs, minmaps, res, calls, ext, handlers, procs, cwd, fs, data, req, resp,
          log, served, handled, inflight, accepted>>

----------------------------------------------------------------------------
(* Bounds of the model *)

MaxTime == 24        \* the clock stops here
TickHours == 12      \* the clock advances in steps of this many hours
MaxCalls == 1        \* invocations of ensure_extra_static_files in one behaviour
MaxServed == 2       \* HTTP requests in one behaviour
MaxPosts == 1        \* POST requests in one behaviour
MaxStarts == 3       \* server starts on one static directory
MaxProcs == 2        \* server processes that start at the same time
MaxInflight == 2     \* requests that one server process handles concurrently
MaxUploads == 2      \* uploads that follow each other in one behaviour
MaxFiles == 2        \* entries in the files lists of the POSTs of one behaviour

----------------------------------------------------------------------------
(* extra_static_files.py: constants *)

PINNED_VERSION == "0.55.1"
OtherVersion == "0.56.0"
Versions == {PINNED_VERSION, OtherVersion}
OneDay == 24         \* timedelta(days=1), in hours

\* The tarball URL the registry gives for a version.
TarballOf(v) == "https://registry.npmjs.org/monaco-editor/-/monaco-editor-" \o v \o ".tgz"

(* An archive served at a download URL: the version it packages and what it
   holds.  full: package/min/vs with loader.js, and package/min-maps;
   nomaps: as full without min-maps; noloader: package/min/vs without
   loader.js; novs: package/ without min/vs; notar: not a tar file. *)
ArchiveKinds == {"full", "nomaps", "noloader", "novs", "notar"}
Archive(v, k) == [status |-> "ok", ver |-> v, kind |-> k]
Archives == {Archive(PINNED_VERSION, k) : k \in ArchiveKinds}
            \cup {Archive(OtherVersion, "full")}
DownloadError == [status |-> "error", ver |-> "", kind |-> ""]
DownloadResponses == Archives \cup {DownloadError}

\* hashlib.sha1(response.data).hexdigest(): one digest per archive content.
Sha1(a) == "sha1:" \o a.ver \o ":" \o a.kind
BogusSha == "1234567890"

(* The registry's answer to GET registry/monaco-editor: an error (no answer,
   or one json.loads rejects), or dist-tags.latest, the keys of versions, and
   dist.shasum of each version (dist.tarball is TarballOf). *)
NoShasum == [v \in Versions |-> ""]
RegistryError == [status |-> "error", latest |-> "", versions |-> {}, shasum |-> NoShasum]

\* The content of a directory that no download of this model put there.
Original == "original"
NoDir == "none"

\* tuple[str, str, str] | None
NoDetails == <<>>

\* datetime.isoformat() of a timezone-aware time, and what fromisoformat reads.
IsoFormat(t) == [kind |-> "aware", t |-> t]
NoLastCheck == [kind |-> "missing", t |-> 0]

AbsentCache == [kind |-> "absent", last_check |-> NoLastCheck,
                version |-> "", url |-> "", sha_sum |-> ""]

----------------------------------------------------------------------------
(* extra_static_files.py: the functions *)

\* Variant of _remove_loader_js: nothing is unlinked.
_remove_loader_js_kept(v) == v

\* _remove_loader_js: unlink vs/loader.js if it exists.
_remove_loader_js(v) == IF v.loader THEN [v EXCEPT !.loader = FALSE] ELSE v

\* Variants of is_fresh: the comparison turned round, and a record of exactly a day kept.
is_fresh_inverted(t, last_check) == t - last_check.t >= OneDay
is_fresh_inclusive(t, last_check) == t - last_check.t <= OneDay

\* datetime.now(timezone.utc) - last_check < timedelta(days=1)
is_fresh(t, last_check) == t - last_check.t < OneDay

(* _get_cached_details: the cached (version, url, sha_sum) if the record is
   usable and less than a day old; otherwise loader.js is removed and the
   result is None.  branch names the path taken. *)
_get_cached_details(c, v, t) ==
    LET none(b) == [details |-> NoDetails, vs |-> _remove_loader_js(v), branch |-> b]
    IN  IF c.kind = "absent" THEN none("absent")
        \* json.load raises, or data.get raises on a non-object: except BaseException
        ELSE IF c.kind # "object" THEN none("unreadable")
        \* fromisoformat raises ValueError
        ELSE IF c.last_check.kind \in {"missing", "garbage"} THEN none("bad_last_check")
        ELSE IF c.version = "" \/ c.url = "" \/ c.sha_sum = "" THEN none("empty_field")
        \* aware - naive raises TypeError: except BaseException
        ELSE IF c.last_check.kind = "naive" THEN none("naive")
        ELSE IF is_fresh(t, c.last_check)
             THEN [details |-> <<c.version, c.url, c.sha_sum>>, vs |-> v, branch |-> "fresh"]
             ELSE none("expired")

(* _get_package_details: the cached details when usable and of the pinned
   version, else the registry's.  requests counts the registry requests. *)
_get_package_details(c, v, t, reg) ==
    LET cached == _get_cached_details(c, v, t)
        b == IF cached.details # NoDetails THEN "not_pinned" ELSE cached.branch
        target == IF PINNED_VERSION # "" /\ PINNED_VERSION \in reg.versions
                  THEN PINNED_VERSION ELSE reg.latest
        raise == [raised |-> TRUE, details |-> NoDetails, vs |-> cached.vs,
                  requests |-> 1, branch |-> b]
    IN  IF cached.details # NoDetails
           /\ (PINNED_VERSION = "" \/ PINNED_VERSION = cached.details[1])
        THEN [raised |-> FALSE, details |-> cached.details, vs |-> cached.vs,
              requests |-> 0, branch |-> "reused"]
        ELSE IF reg.status = "error" THEN raise
        \* data["versions"][target_version] raises KeyError
        ELSE IF target \notin reg.versions THEN raise
        ELSE [raised |-> FALSE, details |-> <<target, TarballOf(target), reg.shasum[target]>>,
              vs |-> cached.vs, requests |-> 1, branch |-> b]

(* _extract_monaco_editor_files: mkdtemp, then tarfile.open and extractall. *)
_extract_monaco_editor_files(a) ==
    [tmp_dir |-> TRUE, raised |-> a.kind = "notar"]

\* Variant of HasMinVs: package/min/vs is not looked for.
HasMinVs_unchecked(a) == TRUE

HasMinVs(a) == a.kind \in {"full", "nomaps", "noloader"}
HasLoader(a) == a.kind \in {"full", "nomaps"}
\* Variant of HasMinMaps: package/min-maps is copied without being looked for.
HasMinMaps_unchecked(a) == TRUE

HasMinMaps(a) == a.kind \in {"full", "noloader"}

\* Variant of sha_matches: the digest is not compared.
sha_matches_unchecked(a, details) == TRUE

\* sha_sum != version_sha_sum, negated
sha_matches(a, details) == Sha1(a) = details[3]

\* Variant of _download_monaco_editor: a failed GET of the archive is tried once more.
_download_monaco_editor_retry(details, v, m, a) ==
    LET fail(tmp, n) == [raised |-> TRUE, vs |-> v, minmaps |-> m, requests |-> n,
                         url |-> details[2], extracted |-> tmp, tmp_left |-> tmp]
        ex == _extract_monaco_editor_files(a)
    IN  IF a.status = "error" THEN fail(FALSE, 2)
        ELSE IF Sha1(a) # details[3] THEN fail(FALSE, 1)
        ELSE IF ex.raised THEN fail(ex.tmp_dir, 1)
        ELSE IF ~HasMinVs(a) THEN fail(ex.tmp_dir, 1)
        ELSE [raised |-> FALSE,
              vs |-> [exists |-> TRUE, loader |-> HasLoader(a), content |-> Sha1(a)],
              minmaps |-> IF HasMinMaps(a)
                          THEN [exists |-> TRUE, content |-> Sha1(a)] ELSE m,
              requests |-> 1, url |-> details[2], extracted |-> TRUE, tmp_left |-> FALSE]

(* _download_monaco_editor: get the archive, compare its SHA-1 with the
   details', extract it, replace vs (and min-maps when the archive has it).
   requests counts the GETs of the archive; tmp_left says that the temporary
   directory is still there at the end. *)
_download_monaco_editor(details, v, m, a) ==
    LET fail(tmp) == [raised |-> TRUE, vs |-> v, minmaps |-> m, requests |-> 1,
                      url |-> details[2], extracted |-> tmp, tmp_left |-> tmp]
        ex == _extract_monaco_editor_files(a)
    IN  IF a.status = "error" THEN fail(FALSE)
        ELSE IF ~sha_matches(a, details) THEN fail(FALSE)
        ELSE IF ex.raised THEN fail(ex.tmp_dir)
        \* only tmp_dir/package is removed before FileNotFoundError
        ELSE IF ~HasMinVs(a) THEN fail(ex.tmp_dir)
        ELSE [raised |-> FALSE,
              vs |-> [exists |-> TRUE, loader |-> HasLoader(a), content |-> Sha1(a)],
              minmaps |-> IF HasMinMaps(a)
                          THEN [exists |-> TRUE, content |-> Sha1(a)] ELSE m,
              requests |-> 1, url |-> details[2], extracted |-> TRUE, tmp_left |-> FALSE]

(* What an invocation did: when it ran, how it ended and where it raised, the
   path taken through the cache check, the requests made, the details the
   registry gave (fetched) and those used, the URL downloaded and the archive
   received. *)
NoResult == [at |-> 0, outcome |-> "none", raised_in |-> "none", branch |-> "none",
             registry_requests |-> 0, downloads |-> 0,
             fetched |-> NoDetails, details |-> NoDetails,
             download_url |-> "", archive |-> DownloadError,
             extracted |-> FALSE, tmp_left |-> FALSE]

\* Variant of loader_js_exists: the directory vs is looked for, not the file.
loader_js_exists_dir(v) == v.exists

\* loader_js.exists(), for loader_js = static_root_path / "vs" / "loader.js"
loader_js_exists(v) == v.loader

\* A variant that writes a last_check that does not follow the clock.
DetailsJson_stale(t, details) ==
    [kind |-> "object", last_check |-> IsoFormat(0), version |-> details[1],
     url |-> details[2], sha_sum |-> details[3]]

\* json.dump of the record into monaco_details.json
DetailsJson(t, details) ==
    [kind |-> "object", last_check |-> IsoFormat(t), version |-> details[1],
     url |-> details[2], sha_sum |-> details[3]]

(* ensure_extra_static_files on a static directory (c, v, m) at time t, with
   the registry answering reg and the download URL answering a. *)
ensure_extra_static_files(c, v, m, t, reg, a) ==
    LET pd == _get_package_details(c, v, t, reg)
        need == ~loader_js_exists(pd.vs)
        dl == _download_monaco_editor(pd.details, pd.vs, m, a)
        v2 == IF need THEN dl.vs ELSE pd.vs
        m2 == IF need THEN dl.minmaps ELSE m
        r0 == [NoResult EXCEPT !.at = t, !.branch = pd.branch,
                               !.registry_requests = pd.requests,
                               !.fetched = IF pd.requests > 0 THEN pd.details ELSE NoDetails,
                               !.details = pd.details]
        r1 == IF need
              THEN [r0 EXCEPT !.downloads = dl.requests, !.download_url = dl.url,
                              !.archive = a, !.extracted = dl.extracted,
                              !.tmp_left = dl.tmp_left]
              ELSE r0
    IN  IF pd.raised
        THEN [cache |-> c, vs |-> pd.vs, minmaps |-> m,
              res |-> [r0 EXCEPT !.outcome = "RuntimeError", !.raised_in = "details"]]
        ELSE IF need /\ dl.raised
        THEN [cache |-> c, vs |-> dl.vs, minmaps |-> dl.minmaps,
              res |-> [r1 EXCEPT !.outcome = "RuntimeError", !.raised_in = "download"]]
        ELSE IF ~loader_js_exists(v2)
        THEN [cache |-> c, vs |-> v2, minmaps |-> m2,
              res |-> [r1 EXCEPT !.outcome = "RuntimeError", !.raised_in = "check"]]
        ELSE [cache |-> DetailsJson(t, pd.details), vs |-> v2, minmaps |-> m2,
              res |-> [r1 EXCEPT !.outcome = "returned"]]

----------------------------------------------------------------------------
(* handlers/__init__.py *)

Routes == {"waldiez/files", "waldiez/upload", "min-maps/(.*)"}

\* Variant of setup_handlers: the handlers are added before the assets are ensured.
setup_handlers_first(h, e) ==
    [handlers |-> h \cup Routes, raised |-> e.res.outcome # "returned"]

\* setup_handlers: ensure_extra_static_files, then web_app.add_handlers.
setup_handlers(h, e) ==
    IF e.res.outcome = "returned"
    THEN [handlers |-> h \cup Routes, raised |-> FALSE]
    ELSE [handlers |-> h, raised |-> TRUE]

----------------------------------------------------------------------------
(* files_handler.py: paths and the file system *)

(* A path is the tuple of its components: <<>> is the empty string, <<n>> the
   relative path n, <<d, n>> the absolute path d/n and <<d>> the directory d,
   for a directory d of Dirs (written with its leading separator). *)
ROOT_DIR == "/srv"                 \* contents_manager.root_dir
Dirs == {ROOT_DIR, "/work"}
Names == {"example.waldiez", "sub"}
Kinds == {"none", "file", "dir"}
FilePaths == {<<d, n>> : d \in Dirs, n \in Names}

isabs(p) == Len(p) > 0 /\ p[1] \in Dirs
\* os.path.join(a, b): b alone when b is absolute.
join(a, b) == IF isabs(b) THEN b ELSE a \o b
\* os.path.abspath(p) in a process whose working directory is c.
abspath(c, p) == IF isabs(p) THEN p ELSE <<c>> \o p

\* What the absolute path q names in the file system f.
KindOf(f, q) == IF Len(q) = 1 THEN "dir" ELSE IF q \in DOMAIN f THEN f[q] ELSE "none"
\* os.path.exists and os.path.isfile; both are False for the empty string.
exists(f, c, p) == p # <<>> /\ KindOf(f, abspath(c, p)) # "none"
isfile(f, c, p) == p # <<>> /\ KindOf(f, abspath(c, p)) = "file"

\* A query argument: absent (None), or present with a value.
None == [some |-> FALSE, val |-> <<>>]
Some(p) == [some |-> TRUE, val |-> p]
\* Variant of Truthy: "is not None" in place of the truth value.
Truthy_not_none(o) == o.some

\* The truth value Python gives an optional string.
Truthy(o) == o.some /\ o.val # <<>>

NoBytes == ""
NoBody == [kind |-> "none", path |-> <<>>, ctype |-> "", data |-> NoBytes]
HTTPError(code, why) == [status |-> code, reason |-> why, body |-> NoBody]

(* FilesHandler._get_file_path: the file as named (relative to the working
   directory), else joined to the server root; FileNotFoundError otherwise. *)
_get_file_path(f, c, file) ==
    LET joined == join(<<ROOT_DIR>>, file)
    IN  IF exists(f, c, file) /\ isfile(f, c, file)
        THEN [found |-> TRUE, path |-> abspath(c, file)]
        ELSE IF exists(f, c, joined) /\ isfile(f, c, joined)
        THEN [found |-> TRUE, path |-> abspath(c, joined)]
        ELSE [found |-> FALSE, path |-> <<>>]

\* FilesHandler._send_image: the bytes of the file, as image/png.
_send_image(f, d, c, file_path) ==
    LET actual == _get_file_path(f, c, file_path)
    IN  IF ~actual.found THEN HTTPError(404, "File not found")
        ELSE [status |-> 200, reason |-> "OK",
              body |-> [kind |-> "bytes", path |-> actual.path, ctype |-> "image/png",
                        data |-> d[actual.path]]]

\* FilesHandler.get, behind @authenticated.
FilesHandler_get(f, d, c, r) ==
    LET file_path == _get_file_path(f, c, r.path.val)
    IN  IF ~r.auth THEN HTTPError(403, "Forbidden")
        ELSE IF ~r.path.some /\ ~r.view.some /\ ~r.other
        THEN HTTPError(400, "No args in request")
        ELSE IF Truthy(r.view) THEN _send_image(f, d, c, r.view.val)
        ELSE IF ~Truthy(r.path) THEN HTTPError(400, "No path in request")
        ELSE IF ~file_path.found THEN HTTPError(404, "File not found")
        ELSE [status |-> 200, reason |-> "OK",
              body |-> [kind |-> "json", path |-> file_path.path, ctype |-> "",
                        data |-> NoBytes]]

----------------------------------------------------------------------------
(* files_handler.py: POST /waldiez/files *)

\* The end of a file name from its last dot, and the name before that dot.
LastDot(n) ==
    CASE n \in {"example.waldiez", "..example.waldiez"} -> ".waldiez"
      [] n = "example.py" -> ".py"
      [] n = "example.ipynb" -> ".ipynb"
      [] n \in {"dummy.txt", "..dummy.txt", "../dummy.txt"} -> ".txt"
      [] n = "DUMMY.TXT" -> ".TXT"
      [] n = "blank.png" -> ".png"
      [] OTHER -> ""
Stem(n) ==
    CASE n \in {"example.waldiez", "example.py", "example.ipynb"} -> "example"
      [] n \in {"dummy.txt"} -> "dummy"
      [] OTHER -> n

\* Variant of with_suffix: the suffix is added to the whole name.
with_suffix_append(q, s) == SubSeq(q, 1, Len(q) - 1) \o <<q[Len(q)] \o s>>

\* str.endswith(s), for a suffix s made of a dot and letters.
endswith(p, s) == p # <<>> /\ LastDot(p[Len(p)]) = s
\* Path.suffix and Path.with_suffix (no name of the model starts with its last dot).
suffix(q) == LastDot(q[Len(q)])
with_suffix(q, s) == SubSeq(q, 1, Len(q) - 1) \o <<Stem(q[Len(q)]) \o s>>
\* Path(file).resolve(): the absolute path (the model has no symbolic link).
resolve(c, p) == abspath(c, p)

\* A directory of Dirs as str.replace and the removal of the leading separator leave it.
StripSep(d) == IF d = ROOT_DIR THEN "srv" ELSE "work"

(* FilesHandler._relative_to_cwd: every occurrence of the working directory
   is removed from the string of the path, then one leading separator. *)
_relative_to_cwd(c, file_path) ==
    IF file_path[1] = c THEN Tail(file_path)
    ELSE <<StripSep(file_path[1])>> \o Tail(file_path)

\* An entry of the JSON list "files": a string, or a value of another type.
NotAString == [str |-> FALSE, val |-> <<>>]
Str(p) == [str |-> TRUE, val |-> p]

NotConverted == [converted |-> <<>>, written |-> {}, log |-> <<>>]

\* FilesHandler._to_py and _to_ipynb: exporter.export(file_path, force=True).
_to_py(c, file_path, answer) ==
    IF answer = "export_error"
    THEN [NotConverted EXCEPT !.log = <<"Error exporting to .py">>]
    ELSE [converted |-> _relative_to_cwd(c, file_path), written |-> {file_path},
          log |-> <<>>]
_to_ipynb(c, file_path, answer) ==
    IF answer = "export_error"
    THEN [NotConverted EXCEPT !.log = <<"Error exporting to .ipynb">>]
    ELSE [converted |-> _relative_to_cwd(c, file_path), written |-> {file_path},
          log |-> <<>>]

(* FilesHandler._export_file; answer is what the exporter does with this
   file: "ok", "load_error" (WaldiezExporter.load raises) or "export_error". *)
_export_file(c, file, target_extension, answer) ==
    LET file_path == resolve(c, file)
    IN  IF answer = "load_error"
        THEN [NotConverted EXCEPT !.log = <<"Error loading file">>]
        ELSE IF target_extension = "py"
        THEN _to_py(c, with_suffix(file_path, ".py"), answer)
        ELSE IF target_extension = "ipynb"
        THEN _to_ipynb(c, with_suffix(file_path, ".ipynb"), answer)
        ELSE [NotConverted EXCEPT !.log = <<"Invalid target extension">>]

\* Variant of _handle_export: the first file that fails ends the batch.
RECURSIVE _handle_export_stop(_, _, _, _, _)
_handle_export_stop(f, c, files, target_extension, answers) ==
    IF files = <<>> THEN [file_paths |-> <<>>, written |-> {}, log |-> <<>>]
    ELSE LET one == _export_file(c, Head(files), target_extension, Head(answers))
             rest == IF one.converted = <<>>
                     THEN [file_paths |-> <<>>, written |-> {}, log |-> <<>>]
                     ELSE _handle_export_stop(f, c, Tail(files), target_extension,
                                              Tail(answers))
         IN  [file_paths |-> (IF one.converted # <<>> THEN <<one.converted>> ELSE <<>>)
                             \o rest.file_paths,
              written |-> one.written \cup rest.written,
              log |-> one.log \o rest.log]

\* The loop of _handle_export; the exporter answers the files in turn.
RECURSIVE _handle_export_loop(_, _, _, _, _)
_handle_export_loop(f, c, files, target_extension, answers) ==
    IF files = <<>> THEN [file_paths |-> <<>>, written |-> {}, log |-> <<>>]
    ELSE LET file_path == resolve(c, Head(files))
         IN  IF ~isfile(f, c, file_path) \/ suffix(file_path) # ".waldiez"
             THEN LET rest == _handle_export_loop(f, c, Tail(files), target_extension,
                                                  answers)
                  IN  [rest EXCEPT !.log = <<"Invalid file">> \o rest.log]
             ELSE LET one == _export_file(c, Head(files), target_extension,
                                          Head(answers))
                      rest == _handle_export_loop(f, c, Tail(files), target_extension,
                                                  Tail(answers))
                  IN  [file_paths |-> (IF one.converted # <<>> THEN <<one.converted>>
                                       ELSE <<>>) \o rest.file_paths,
                       written |-> one.written \cup rest.written,
                       log |-> one.log \o rest.log]

\* FilesHandler._handle_export
_handle_export(f, c, files, target_extension, answers) ==
    LET loop == _handle_export_loop(f, c, files, target_extension, answers)
    IN  IF loop.file_paths = <<>>
        THEN [loop EXCEPT !.log = loop.log \o <<"No files were exported">>]
        ELSE loop

(* FilesHandler._get_file_paths: the files that end in .waldiez and are
   found, as absolute paths; the others are skipped. *)
_get_file_paths(f, c, files) ==
    LET named(file) == endswith(file, ".waldiez")
        found(file) == _get_file_path(f, c, file).found
        kept == SelectSeq(SelectSeq(files, named), found)
    IN  [file_paths |-> [i \in 1..Len(kept) |-> _get_file_path(f, c, kept[i]).path],
         log |-> [i \in 1..(Len(SelectSeq(files, named)) - Len(kept)) |->
                    "Error getting file path"]]

Raised(error) == [raised |-> TRUE, error |-> error, files |-> <<>>,
                  target_extension |-> "", log |-> <<>>]

\* Variant of _gather_post_data: the files are looked at before the extension.
_gather_post_data_files_first(f, c, r) ==
    LET is_str(e) == e.str
        strs == SelectSeq(r.files.list, is_str)
        files_list == [i \in 1..Len(strs) |-> strs[i].val]
        paths == _get_file_paths(f, c, files_list)
    IN  IF r.body = "invalid"
        THEN Raised(HTTPError(400, "Invalid JSON in body of request"))
        ELSE IF r.body \in {"none", "falsy"}
        THEN Raised(HTTPError(400, "No data in request"))
        ELSE IF r.body # "object"
        THEN Raised(HTTPError(500, "Internal Server Error"))
        ELSE IF r.files.kind # "list" \/ r.files.list = <<>>
        THEN Raised(HTTPError(400, "No files in request"))
        ELSE IF r.extension \notin {"py", "ipynb"}
        THEN Raised(HTTPError(400, "Invalid extension"))
        ELSE [raised |-> FALSE, error |-> HTTPError(0, ""), files |-> paths.file_paths,
              target_extension |-> r.extension, log |-> paths.log]

(* FilesHandler._gather_post_data.  get_json_body gives None without a body
   and raises HTTPError(400) on a body that is not JSON; a JSON value that is
   not an object is falsy, or has no method get (AttributeError, which the
   web framework answers with 500). *)
_gather_post_data(f, c, r) ==
    LET is_str(e) == e.str
        strs == SelectSeq(r.files.list, is_str)
        files_list == [i \in 1..Len(strs) |-> strs[i].val]
        paths == _get_file_paths(f, c, files_list)
    IN  IF r.body = "invalid"
        THEN Raised(HTTPError(400, "Invalid JSON in body of request"))
        ELSE IF r.body \in {"none", "falsy"}
        THEN Raised(HTTPError(400, "No data in request"))
        ELSE IF r.body # "object"
        THEN Raised(HTTPError(500, "Internal Server Error"))
        ELSE IF r.extension \notin {"py", "ipynb"}
        THEN Raised(HTTPError(400, "Invalid extension"))
        ELSE IF r.files.kind # "list" \/ r.files.list = <<>>
        THEN Raised(HTTPError(400, "No files in request"))
        ELSE [raised |-> FALSE, error |-> HTTPError(0, ""), files |-> paths.file_paths,
              target_extension |-> r.extension, log |-> paths.log]

NothingDone(error, lines) == [resp |-> error, written |-> {}, log |-> lines]

(* FilesHandler.post, behind @authenticated: the response, the files the
   exporter wrote and the errors logged. *)
FilesHandler_post(f, c, r) ==
    LET gathered == _gather_post_data(f, c, r)
        results == _handle_export(f, c, gathered.files, gathered.target_extension,
                                  r.exporter)
    IN  IF ~r.auth THEN NothingDone(HTTPError(403, "Forbidden"), <<>>)
        ELSE IF gathered.raised THEN NothingDone(gathered.error, <<>>)
        ELSE IF gathered.files = <<>>
        THEN NothingDone(HTTPError(400, "No valid files in the request"), gathered.log)
        ELSE [resp |-> [status |-> 200, reason |-> "OK",
                        body |-> [kind |-> "files", files |-> results.file_paths]],
              written |-> results.written,
              log |-> gathered.log \o results.log]

----------------------------------------------------------------------------
(* upload_handler.py: POST /waldiez/upload *)

ALLOWED_EXTENSIONS == {".txt", ".pdf", ".doc", ".docx", ".rtf", ".xlsx", ".xls", ".csv",
                       ".json", ".yaml", ".yml", ".xml", ".md", ".odt"}

(* pathvalidate.sanitize_filename: the characters that no file name may hold
   (the separators among them) are removed. *)
sanitize_filename(n) ==
    CASE n = "../dummy.txt" -> "..dummy.txt"
      [] n = "/" -> ""
      [] OTHER -> n

\* str.lower
lower(n) == IF n = "DUMMY.TXT" THEN "dummy.txt" ELSE n
\* Variant of is_allowed_extension: the case of the letters is ignored.
is_allowed_extension_lower(filename) ==
    \E extension \in ALLOWED_EXTENSIONS : LastDot(lower(filename)) = extension

\* any(filename.endswith(extension) for extension in ALLOWED_EXTENSIONS)
is_allowed_extension(filename) ==
    \E extension \in ALLOWED_EXTENSIONS : LastDot(filename) = extension

\* Variant of UploadHandler._get_file_path: the name is not joined to the root.
UploadHandler_get_file_path_cwd(c, file_name) == abspath(c, <<file_name>>)

\* UploadHandler._get_file_path: abspath(join(root_dir, file_name)).
UploadHandler_get_file_path(c, file_name) == abspath(c, join(<<ROOT_DIR>>, <<file_name>>))

\* The multipart part named "file" of a request: absent, or a file name and a body.
NoPart == [some |-> FALSE, filename |-> "", body |-> NoBytes]
Part(n, b) == [some |-> TRUE, filename |-> n, body |-> b]

(* Variant of UploadHandler.post: the file is opened for exclusive creation,
   so that an existing target is refused like a directory. *)
UploadHandler_post_exclusive(f, d, c, r) ==
    LET filename == sanitize_filename(r.part.filename)
        file_path == UploadHandler_get_file_path(c, filename)
    IN  IF ~r.part.some
        THEN [resp |-> HTTPError(400, "No file in request"), fs |-> f, data |-> d]
        ELSE IF ~is_allowed_extension(filename)
        THEN [resp |-> HTTPError(400, "File extension not allowed"), fs |-> f, data |-> d]
        ELSE IF KindOf(f, file_path) # "none"
        THEN [resp |-> HTTPError(500, "Internal Server Error"), fs |-> f, data |-> d]
        ELSE [resp |-> [status |-> 200, reason |-> "OK",
                        body |-> [kind |-> "json", path |-> file_path, ctype |-> "",
                                  data |-> NoBytes]],
              fs |-> [f EXCEPT ![file_path] = "file"],
              data |-> [d EXCEPT ![file_path] = r.part.body]]

(* UploadHandler.post (it has no @authenticated): the response and the files
   after it.  open(file_path, "wb") raises on a directory, which the web
   framework answers with 500. *)
UploadHandler_post(f, d, c, r) ==
    LET filename == sanitize_filename(r.part.filename)
        file_path == UploadHandler_get_file_path(c, filename)
    IN  IF ~r.part.some
        THEN [resp |-> HTTPError(400, "No file in request"), fs |-> f, data |-> d]
        ELSE IF ~is_allowed_extension(filename)
        THEN [resp |-> HTTPError(400, "File extension not allowed"), fs |-> f, data |-> d]
        ELSE IF KindOf(f, file_path) = "dir"
        THEN [resp |-> HTTPError(500, "Internal Server Error"), fs |-> f, data |-> d]
        ELSE [resp |-> [status |-> 200, reason |-> "OK",
                        body |-> [kind |-> "json", path |-> file_path, ctype |-> "",
                                  data |-> NoBytes]],
              fs |-> [f EXCEPT ![file_path] = "file"],
              data |-> [d EXCEPT ![file_path] = r.part.body]]

----------------------------------------------------------------------------
(* interrupt_handler.py and checkpoints_handler.py *)

StatusOk == [kind |-> "status_ok", path |-> <<>>, ctype |-> "", data |-> NoBytes]

(* InterruptHandler.get, behind @authenticated; answer is what
   WaldiezRunner.gather does: it returns ("ok") or raises ("raises"). *)
InterruptHandler_get(r) ==
    IF ~r.auth THEN [resp |-> HTTPError(403, "Forbidden"), log |-> <<>>]
    ELSE [resp |-> [status |-> 200, reason |-> "OK", body |-> StatusOk],
          log |-> IF r.answer = "raises" THEN <<"gather">> ELSE <<>>]

(* CheckpointsHandler.get, behind @authenticated; answer is what
   StorageManager.history does. *)
CheckpointsHandler_get(r) ==
    IF ~r.auth THEN [resp |-> HTTPError(403, "Forbidden"), log |-> <<>>]
    ELSE IF ~(r.flow.some /\ r.flow.val # "")
    THEN [resp |-> HTTPError(400, "No flow argument in request"), log |-> <<>>]
    ELSE IF r.answer = "raises"
    THEN [resp |-> HTTPError(400, "Invalid request"), log |-> <<"history">>]
    ELSE [resp |-> [status |-> 200, reason |-> "OK",
                    body |-> [kind |-> "checkpoints", path |-> <<>>, ctype |-> "",
                              data |-> NoBytes]],
          log |-> <<>>]

\* CheckpointsHandler.post, behind @authenticated.
CheckpointsHandler_post(r) ==
    IF ~r.auth THEN [resp |-> HTTPError(403, "Forbidden"), log |-> <<>>]
    ELSE IF r.body = "invalid"
    THEN [resp |-> HTTPError(400, "Invalid JSON in body of request"), log |-> <<>>]
    ELSE IF r.body \in {"none", "falsy"}
    THEN [resp |-> HTTPError(400, "No data in request"), log |-> <<>>]
    ELSE [resp |-> HTTPError(500, "Not yet implemented"), log |-> <<>>]

----------------------------------------------------------------------------
(* The static directories and the answers of the network *)

ExampleUrl == "https://example.com"
BadLastChecks == {NoLastCheck, [kind |-> "garbage", t |-> 0], [kind |-> "naive", t |-> 0]}
FullCaches ==
    [kind : {"object"}, last_check : {IsoFormat(0), IsoFormat(MaxTime)}, version : Versions,
     url : {ExampleUrl}, sha_sum : {BogusSha, Sha1(Archive(PINNED_VERSION, "full"))}]
TestCache == [kind |-> "object", last_check |-> IsoFormat(0), version |-> PINNED_VERSION,
              url |-> ExampleUrl, sha_sum |-> BogusSha]
InitCaches ==
    {AbsentCache,
     [AbsentCache EXCEPT !.kind = "badjson"],
     [AbsentCache EXCEPT !.kind = "notobject"]}
    \cup FullCaches
    \cup {[TestCache EXCEPT !.last_check = l] : l \in BadLastChecks}
    \cup {[TestCache EXCEPT !.version = ""], [TestCache EXCEPT !.url = ""],
          [TestCache EXCEPT !.sha_sum = ""]}

InitVs == {[exists |-> FALSE, loader |-> FALSE, content |-> NoDir],
           [exists |-> TRUE, loader |-> FALSE, content |-> Original],
           [exists |-> TRUE, loader |-> TRUE, content |-> Original]}

InitMinMaps == {[exists |-> FALSE, content |-> NoDir],
                [exists |-> TRUE, content |-> Original]}

(* The registry declares, for every version, the digest of the archive of
   one kind, or a digest of no archive. *)
Registries ==
    {RegistryError}
    \cup {[status |-> "ok", latest |-> l, versions |-> vv,
           shasum |-> [v \in Versions |-> IF k = "bogus" THEN BogusSha
                                          ELSE Sha1(Archive(v, k))]] :
          l \in Versions, vv \in SUBSET Versions, k \in ArchiveKinds \cup {"bogus"}}

----------------------------------------------------------------------------
(* The state machine *)

\* The bytes of the files of a directory: files of two directories differ.
BytesIn(d) == IF d = ROOT_DIR THEN "bytes-root" ELSE "bytes-work"

NoRequest == [method |-> "none", auth |-> FALSE, path |-> None, view |-> None,
              other |-> FALSE]
NoResponse == [status |-> 0, reason |-> "", body |-> NoBody]

\* The values a client gives the query arguments path and view.
ArgValues == {<<>>} \cup {<<n>> : n \in Names} \cup {<<d, "example.waldiez">> : d \in Dirs}
Args == {None} \cup {Some(p) : p \in ArgValues}
GetRequests == [method : {"GET"}, auth : BOOLEAN, path : Args, view : Args,
                other : BOOLEAN]

\* What the exporter does with a file.
Answers == {"ok", "load_error", "export_error"}
AllOk == [i \in 1..MaxFiles |-> "ok"]

\* The values a client gives the entries of "files", and the field itself.
Entries == {NotAString, Str(<<"example.waldiez">>), Str(<<"/work", "example.waldiez">>),
            Str(<<"dummy.txt">>)}
FileLists == UNION {[1..n -> Entries] : n \in 0..MaxFiles}
FilesFields == {[kind |-> "absent", list |-> <<>>], [kind |-> "notlist", list |-> <<>>]}
               \cup {[kind |-> "list", list |-> l] : l \in FileLists}
\* "extension": a value the handler knows, another one, or none ("").
Extensions == {"py", "ipynb", "invalid", ""}

(* The exporter is asked at most once for each string that ends in .waldiez,
   and never when the extension is refused. *)
NeedsAnswer(e) == e.str /\ endswith(e.val, ".waldiez")
AnswersFor(l) ==
    {x \in [1..MaxFiles -> Answers] :
        \A i \in 1..MaxFiles : i > Len(SelectSeq(l, NeedsAnswer)) => x[i] = "ok"}

PostRequest(a, b, fl, e, x) ==
    [method |-> "POST", auth |-> a, body |-> b, files |-> fl, extension |-> e,
     exporter |-> x]
(* The requests to POST /waldiez/files: the body is absent ("none"), not
   JSON ("invalid"), a JSON value that is falsy ("falsy"), a non-empty JSON
   array ("array") or a non-empty JSON object ("object"). *)
PostRequests ==
    {PostRequest(FALSE, "object",
                 [kind |-> "list", list |-> <<Str(<<"example.waldiez">>)>>], "py", AllOk)}
    \cup {PostRequest(TRUE, b, [kind |-> "absent", list |-> <<>>], "", AllOk) :
            b \in {"none", "invalid", "falsy", "array"}}
    \cup UNION {{PostRequest(TRUE, "object", fl, e, x) :
                   x \in IF e \in {"py", "ipynb"} THEN AnswersFor(fl.list) ELSE {AllOk}} :
                  fl \in FilesFields, e \in Extensions}

\* The requests to the upload, interrupt and checkpoints handlers.
HandlerRequest(rt, m, a, p, fl, b, x) ==
    [route |-> rt, method |-> m, auth |-> a, part |-> p, flow |-> fl, body |-> b,
     answer |-> x]
NoFlow == [some |-> FALSE, val |-> ""]
UploadNames == {"dummy.txt", "blank.png", "DUMMY.TXT", "../dummy.txt", "/"}
UploadBodies == {"", "hello"}
UploadRequests ==
    {HandlerRequest("waldiez/upload", "POST", a, p, NoFlow, "none", "ok") :
        a \in BOOLEAN, p \in {NoPart} \cup {Part(n, b) : n \in UploadNames, b \in UploadBodies}}
InterruptRequests ==
    {HandlerRequest("waldiez/interrupt", "GET", a, NoPart, NoFlow, "none", x) :
        a \in BOOLEAN, x \in {"ok", "raises"}}
CheckpointsGetRequests ==
    {HandlerRequest("waldiez/checkpoints", "GET", a, NoPart, fl, "none", x) :
        a \in BOOLEAN, x \in {"ok", "raises"},
        fl \in {NoFlow, [some |-> TRUE, val |-> ""], [some |-> TRUE, val |-> "flow"]}}
CheckpointsPostRequests ==
    {HandlerRequest("waldiez/checkpoints", "POST", a, NoPart, NoFlow, b, "ok") :
        a \in BOOLEAN, b \in {"none", "invalid", "falsy", "array", "object"}}

\* The files an upload can write, and what may be there before it.
UploadPaths == {<<ROOT_DIR, sanitize_filename(n)>> : n \in UploadNames \ {"/"}}

\* The files POST /waldiez/files reads and writes.
ExportPaths == {<<d, n>> : d \in Dirs, n \in {"example.waldiez", "example.py",
                                              "example.ipynb"}}
\* What the exporter writes.
Exported(q) == IF suffix(q) = ".py" THEN "python" ELSE "notebook"

(* The requests one server process has in flight: each was received (pending),
   may be suspended inside its handler, or is answered (done).  at_start keeps
   the files as they were before any of them was handled. *)
Slots == 1..MaxInflight
NoSlot == [state |-> "none", kind |-> "none", req |-> NoRequest, resp |-> NoResponse]
NoInflight == [at_start |-> [fs |-> <<>>, data |-> <<>>], slots |-> [i \in Slots |-> NoSlot]]

\* The files the concurrent requests read and write.
ConcurrentPaths == {<<d, n>> : d \in Dirs, n \in {"dummy.txt", "example.waldiez", "example.py"}}
ConcurrentRequests ==
    {[kind |-> "upload",
      req |-> HandlerRequest("waldiez/upload", "POST", TRUE, Part("dummy.txt", b), NoFlow,
                             "none", "ok")] : b \in UploadBodies}
    \cup {[kind |-> "get",
            req |-> [method |-> "GET", auth |-> TRUE, path |-> None,
                     view |-> Some(<<"dummy.txt">>), other |-> FALSE]],
           [kind |-> "get",
            req |-> [method |-> "GET", auth |-> TRUE, path |-> Some(<<"example.py">>),
                     view |-> None, other |-> FALSE]]}
    \cup {[kind |-> "post",
            req |-> PostRequest(TRUE, "object",
                                [kind |-> "list", list |-> <<Str(<<"example.waldiez">>)>>],
                                "py", AllOk)]}

(* Where a handler gives the event loop the chance to run another request
   before it is done.  The handlers of /waldiez/files and /waldiez/upload are
   coroutines without an await: open() and write() follow each other. *)
Suspends_at_open(point) == point = "open"

Suspends(point) == FALSE

\* The handler of a request, run from its first line to its last.
Serve(f, d, c, k, r) ==
    IF k = "get" THEN [resp |-> FilesHandler_get(f, d, c, r), fs |-> f, data |-> d]
    ELSE IF k = "post"
    THEN LET out == FilesHandler_post(f, c, r)
         IN  [resp |-> out.resp,
              fs |-> [q \in DOMAIN f |-> IF q \in out.written THEN "file" ELSE f[q]],
              data |-> [q \in DOMAIN d |-> IF q \in out.written THEN Exported(q) ELSE d[q]]]
    ELSE UploadHandler_post(f, d, c, r)

InitFilesIdle ==
    /\ cwd = ROOT_DIR
    /\ fs = [q \in FilePaths |-> "none"]
    /\ data = [q \in FilePaths |-> NoBytes]
    /\ req = NoRequest
    /\ resp = NoResponse
    /\ log = <<>>
    /\ served = 0
    /\ handled = 0
    /\ accepted = <<>>
    /\ inflight = NoInflight

\* What the registry and the download URL answer while nothing is wrong with them.
GoodRegistries == {reg \in Registries : reg.status = "ok"
                     /\ reg.shasum[PINNED_VERSION] = Sha1(Archive(PINNED_VERSION, "full"))}
GoodArchives == {Archive(v, "full") : v \in Versions}
\* ... and the registry lists the pinned version.
ServingRegistries == {reg \in GoodRegistries : PINNED_VERSION \in reg.versions}

(* Server processes started together on one static directory.  Each is at a
   line of ensure_extra_static_files (pc), holds the details it got, and
   records how it ended, whether loader.js was missing when it wrote the
   record, and whether another process ran while it did. *)
Procs == 1..MaxProcs
NoProc == [pc |-> "start", details |-> NoDetails, outcome |-> "none",
           missing |-> FALSE, overlapped |-> FALSE]
NoProcs == [p \in Procs |-> NoProc]
Running(pr) == pr.pc \notin {"start", "done"}

\* What the download URL of a version's tarball answers.
ArchiveAt(url) == IF url = TarballOf(OtherVersion) THEN Archive(OtherVersion, "full")
                  ELSE Archive(PINNED_VERSION, "full")

\* The record that ensure_extra_static_files writes for the pinned version.
GoodCache(t) == DetailsJson(t, <<PINNED_VERSION, TarballOf(PINNED_VERSION),
                                 Sha1(Archive(PINNED_VERSION, "full"))>>)

\* The static directory of a server whose extension is loaded.
InitAssetsIdle ==
    /\ now = 0
    /\ cache = DetailsJson(0, <<PINNED_VERSION, TarballOf(PINNED_VERSION),
                                Sha1(Archive(PINNED_VERSION, "full"))>>)
    /\ vs = [exists |-> TRUE, loader |-> TRUE,
             content |-> Sha1(Archive(PINNED_VERSION, "full"))]
    /\ minmaps = [exists |-> TRUE, content |-> Sha1(Archive(PINNED_VERSION, "full"))]
    /\ res = NoResult
    /\ calls = 0
    /\ ext = "loaded"
    /\ handlers = Routes
    /\ procs = NoProcs

\* A running server: any working directory, any files.
InitFiles ==
    /\ InitAssetsIdle
    /\ cwd \in Dirs
    /\ fs \in [FilePaths -> Kinds]
    /\ data = [q \in FilePaths |-> IF fs[q] = "file" THEN BytesIn(q[1]) ELSE NoBytes]
    /\ req = NoRequest
    /\ resp = NoResponse
    /\ log = <<>>
    /\ served = 0
    /\ handled = 0
    /\ accepted = <<>>
    /\ inflight = NoInflight

\* A running server with flow files, none of them exported yet.
InitExport ==
    /\ InitAssetsIdle
    /\ cwd \in Dirs
    /\ fs \in {f \in [ExportPaths -> Kinds] :
                 \A q \in ExportPaths : suffix(q) # ".waldiez" => f[q] = "none"}
    /\ data = [q \in ExportPaths |-> IF fs[q] = "file" THEN "flow" ELSE NoBytes]
    /\ req = NoRequest
    /\ resp = NoResponse
    /\ log = <<>>
    /\ served = 0
    /\ handled = 0
    /\ accepted = <<>>
    /\ inflight = NoInflight

\* A running server; the files of its root are any.
InitHandlers ==
    /\ InitAssetsIdle
    /\ cwd \in Dirs
    /\ fs \in [UploadPaths -> Kinds]
    /\ data = [q \in UploadPaths |-> IF fs[q] = "file" THEN "old" ELSE NoBytes]
    /\ req = NoRequest
    /\ resp = NoResponse
    /\ log = <<>>
    /\ served = 0
    /\ handled = 0
    /\ accepted = <<>>
    /\ inflight = NoInflight

\* A static directory before the first of several server starts.
InitRepeat ==
    /\ now = 0
    /\ cache \in {AbsentCache, TestCache, [TestCache EXCEPT !.version = OtherVersion]}
    /\ vs \in InitVs
    /\ minmaps \in InitMinMaps
    /\ res = NoResult
    /\ calls = 0
    /\ ext = "unloaded"
    /\ handlers = {}
    /\ procs = NoProcs
    /\ InitFilesIdle

(* A static directory on which several server processes start together:
   no record, or one written at time 0 that is fresh (now = 0) or a day old. *)
InitOverlap ==
    /\ now \in {0, MaxTime}
    /\ cache \in {AbsentCache, GoodCache(0)}
    /\ vs \in InitVs
    /\ minmaps \in InitMinMaps
    /\ res = NoResult
    /\ calls = 0
    /\ ext = "unloaded"
    /\ handlers = {}
    /\ procs = NoProcs
    /\ InitFilesIdle

\* A running server that has received no request yet.
InitConcurrent ==
    /\ InitAssetsIdle
    /\ cwd \in Dirs
    /\ fs \in {f \in [ConcurrentPaths -> Kinds] :
                 \A q \in ConcurrentPaths :
                    /\ q[2] = "example.py" => f[q] = "none"
                    /\ q[2] = "example.waldiez" => f[q] # "dir"
                    /\ q = <<"/work", "dummy.txt">> => f[q] = "none"}
    /\ data = [q \in ConcurrentPaths |-> IF fs[q] = "file" THEN "old" ELSE NoBytes]
    /\ req = NoRequest
    /\ resp = NoResponse
    /\ log = <<>>
    /\ served = 0
    /\ handled = 0
    /\ accepted = <<>>
    /\ inflight = [NoInflight EXCEPT !.at_start = [fs |-> fs, data |-> data]]

InitAssets ==
    /\ now = 0
    /\ cache \in InitCaches
    /\ vs \in InitVs
    /\ minmaps \in InitMinMaps
    /\ res = NoResult
    /\ calls = 0
    /\ ext = "unloaded"
    /\ handlers = {}
    /\ procs = NoProcs
    /\ InitFilesIdle

Tick ==
    /\ now + TickHours <= MaxTime
    /\ now' = now + TickHours
    /\ UNCHANGED <<cache, vs, minmaps, res, calls, ext, handlers, procs>>
    /\ UNCHANGED fileVars

\* _load_jupyter_server_extension: setup_handlers(server_app.web_app).
LoadExtension ==
    /\ calls < MaxCalls
    /\ ext = "unloaded"
    /\ \E reg \in Registries, a \in DownloadResponses :
         LET e == ensure_extra_static_files(cache, vs, minmaps, now, reg, a)
             s == setup_handlers(handlers, e)
         IN  /\ cache' = e.cache
             /\ vs' = e.vs
             /\ minmaps' = e.minmaps
             /\ res' = e.res
             /\ handlers' = s.handlers
             /\ ext' = IF s.raised THEN "failed" ELSE "loaded"
    /\ calls' = calls + 1
    /\ UNCHANGED <<now, procs>>
    /\ UNCHANGED fileVars

(* A server process starts on the static directory the earlier ones used and
   loads the extension: setup_handlers on a new web application. *)
StartServer ==
    /\ calls < MaxStarts
    /\ \E reg \in GoodRegistries \cup {RegistryError}, a \in GoodArchives \cup {DownloadError} :
         LET e == ensure_extra_static_files(cache, vs, minmaps, now, reg, a)
             s == setup_handlers({}, e)
         IN  /\ cache' = e.cache
             /\ vs' = e.vs
             /\ minmaps' = e.minmaps
             /\ res' = e.res
             /\ handlers' = s.handlers
             /\ ext' = IF s.raised THEN "failed" ELSE "loaded"
    /\ calls' = calls + 1
    /\ UNCHANGED <<now, procs>>
    /\ UNCHANGED fileVars

(* One line of ensure_extra_static_files in process p: what the process is
   left with (pr), and what the static directory is left with.  Every process
   that is inside the function while p moves has overlapped with p, and p
   with it. *)
Moves(p, pr) ==
    LET others == \E q \in Procs \ {p} : Running(procs[q])
    IN  procs' = [q \in Procs |->
                    IF q = p THEN [pr EXCEPT !.overlapped = @ \/ others]
                    ELSE IF Running(procs[q]) THEN [procs[q] EXCEPT !.overlapped = TRUE]
                    ELSE procs[q]]

Ends(pr, how) == [pr EXCEPT !.pc = "done", !.outcome = how]

\* lines 52-59: _get_package_details, with the registry answering
GetDetails(p) ==
    /\ procs[p].pc = "start"
    /\ \E reg \in ServingRegistries :
         LET pd == _get_package_details(cache, vs, now, reg)
         IN  /\ vs' = pd.vs
             /\ Moves(p, IF pd.raised THEN Ends(procs[p], "RuntimeError")
                         ELSE [procs[p] EXCEPT !.pc = "check", !.details = pd.details])
    /\ UNCHANGED <<cache, minmaps>>

\* line 61: if not loader_js.exists()
CheckLoader(p) ==
    /\ procs[p].pc = "check"
    /\ Moves(p, [procs[p] EXCEPT !.pc = IF loader_js_exists(vs) THEN "recheck" ELSE "fetch"])
    /\ UNCHANGED <<cache, vs, minmaps>>

(* _download_monaco_editor up to rmtree(dst_dir): the archive is fetched,
   compared, extracted, and the vs directory is removed if it exists. *)
RemoveVs(p) ==
    /\ procs[p].pc = "fetch"
    /\ LET a == ArchiveAt(procs[p].details[2])
           ok == sha_matches(a, procs[p].details)
                 /\ ~_extract_monaco_editor_files(a).raised /\ HasMinVs(a)
       IN  /\ vs' = IF ok THEN [exists |-> FALSE, loader |-> FALSE, content |-> NoDir] ELSE vs
           /\ Moves(p, IF ok THEN [procs[p] EXCEPT !.pc = "copy_vs"]
                       ELSE Ends(procs[p], "RuntimeError"))
    /\ UNCHANGED <<cache, minmaps>>

\* shutil.copytree(src_dir, dst_dir): FileExistsError when dst_dir exists
CopyVs(p) ==
    /\ procs[p].pc = "copy_vs"
    /\ LET a == ArchiveAt(procs[p].details[2])
       IN  IF vs.exists
           THEN /\ Moves(p, Ends(procs[p], "RuntimeError"))
                /\ UNCHANGED vs
           ELSE /\ vs' = [exists |-> TRUE, loader |-> HasLoader(a), content |-> Sha1(a)]
                /\ Moves(p, [procs[p] EXCEPT
                               !.pc = IF HasMinMaps(a) THEN "rm_maps" ELSE "recheck"])
    /\ UNCHANGED <<cache, minmaps>>

\* the archive has min-maps: rmtree of the static directory's min-maps if it exists
RemoveMaps(p) ==
    /\ procs[p].pc = "rm_maps"
    /\ minmaps' = [exists |-> FALSE, content |-> NoDir]
    /\ Moves(p, [procs[p] EXCEPT !.pc = "copy_maps"])
    /\ UNCHANGED <<cache, vs>>

\* shutil.copytree(min_maps, dst_dir), then rmtree(tmp_dir)
CopyMaps(p) ==
    /\ procs[p].pc = "copy_maps"
    /\ LET a == ArchiveAt(procs[p].details[2])
       IN  IF minmaps.exists
           THEN /\ Moves(p, Ends(procs[p], "RuntimeError"))
                /\ UNCHANGED minmaps
           ELSE /\ minmaps' = [exists |-> TRUE, content |-> Sha1(a)]
                /\ Moves(p, [procs[p] EXCEPT !.pc = "recheck"])
    /\ UNCHANGED <<cache, vs>>

\* line 70: if not loader_js.exists(): raise RuntimeError
Recheck(p) ==
    /\ procs[p].pc = "recheck"
    /\ Moves(p, IF loader_js_exists(vs) THEN [procs[p] EXCEPT !.pc = "write"]
                ELSE Ends(procs[p], "RuntimeError"))
    /\ UNCHANGED <<cache, vs, minmaps>>

\* lines 75-91: the record is written and the function returns
WriteRecord(p) ==
    /\ procs[p].pc = "write"
    /\ cache' = DetailsJson(now, procs[p].details)
    /\ Moves(p, [Ends(procs[p], "returned") EXCEPT !.missing = ~vs.loader])
    /\ UNCHANGED <<vs, minmaps>>

\* A process executes its next line.
Line ==
    /\ \E p \in Procs :
         \/ GetDetails(p) \/ CheckLoader(p) \/ RemoveVs(p) \/ CopyVs(p)
         \/ RemoveMaps(p) \/ CopyMaps(p) \/ Recheck(p) \/ WriteRecord(p)
    /\ UNCHANGED <<now, res, calls, ext, handlers>>
    /\ UNCHANGED fileVars

\* The server process ends; the next one starts with a new web application.
Restart ==
    /\ ext # "unloaded"
    /\ ext' = "unloaded"
    /\ handlers' = {}
    /\ UNCHANGED <<now, cache, vs, minmaps, res, calls, procs>>
    /\ UNCHANGED fileVars

\* GET /waldiez/files
Get ==
    /\ served < MaxServed
    /\ "waldiez/files" \in handlers
    /\ \E r \in GetRequests :
         /\ req' = r
         /\ resp' = FilesHandler_get(fs, data, cwd, r)
         /\ log' = <<>>
    /\ served' = served + 1
    /\ UNCHANGED <<cwd, fs, data, handled, inflight, accepted>>
    /\ UNCHANGED assetVars

\* POST /waldiez/files
Post ==
    /\ served < MaxPosts
    /\ "waldiez/files" \in handlers
    /\ \E r \in PostRequests :
         LET out == FilesHandler_post(fs, cwd, r)
         IN  /\ handled + Len(r.files.list) <= MaxFiles
             /\ handled' = handled + Len(r.files.list)
             /\ req' = r
             /\ resp' = out.resp
             /\ log' = out.log
             /\ fs' = [q \in DOMAIN fs |-> IF q \in out.written THEN "file" ELSE fs[q]]
             /\ data' = [q \in DOMAIN data |->
                           IF q \in out.written THEN Exported(q) ELSE data[q]]
    /\ served' = served + 1
    /\ UNCHANGED <<cwd, inflight, accepted>>
    /\ UNCHANGED assetVars

\* The uploads accepted so far, with the one just answered if it was accepted.
Accept(sofar, r, answer) ==
    IF answer.status = 200
    THEN Append(sofar, [name |-> sanitize_filename(r.part.filename), body |-> r.part.body])
    ELSE sofar

\* POST /waldiez/upload
Upload ==
    /\ served < MaxPosts
    /\ "waldiez/upload" \in handlers
    /\ \E r \in UploadRequests :
         LET out == UploadHandler_post(fs, data, cwd, r)
         IN  /\ req' = r
             /\ resp' = out.resp
             /\ fs' = out.fs
             /\ data' = out.data
             /\ accepted' = Accept(accepted, r, out.resp)
    /\ log' = <<>>
    /\ served' = served + 1
    /\ UNCHANGED <<cwd, handled, inflight>>
    /\ UNCHANGED assetVars

\* POST /waldiez/upload, one upload after the other
UploadNext ==
    /\ served < MaxUploads
    /\ "waldiez/upload" \in handlers
    /\ \E r \in UploadRequests :
         LET out == UploadHandler_post(fs, data, cwd, r)
         IN  /\ req' = r
             /\ resp' = out.resp
             /\ fs' = out.fs
             /\ data' = out.data
             /\ accepted' = Accept(accepted, r, out.resp)
    /\ log' = <<>>
    /\ served' = served + 1
    /\ UNCHANGED <<cwd, handled, inflight>>
    /\ UNCHANGED assetVars

(* GET on InterruptHandler.  setup_handlers gives this handler and the next
   one no route: the action is the handler serving a request in an
   application that routes to it. *)
Interrupt ==
    /\ served < MaxPosts
    /\ \E r \in InterruptRequests :
         LET out == InterruptHandler_get(r)
         IN  /\ req' = r
             /\ resp' = out.resp
             /\ log' = out.log
    /\ served' = served + 1
    /\ UNCHANGED <<cwd, fs, data, handled, inflight, accepted>>
    /\ UNCHANGED assetVars

\* GET on CheckpointsHandler
CheckpointsGet ==
    /\ served < MaxPosts
    /\ \E r \in CheckpointsGetRequests :
         LET out == CheckpointsHandler_get(r)
         IN  /\ req' = r
             /\ resp' = out.resp
             /\ log' = out.log
    /\ served' = served + 1
    /\ UNCHANGED <<cwd, fs, data, handled, inflight, accepted>>
    /\ UNCHANGED assetVars

\* POST on CheckpointsHandler
CheckpointsPost ==
    /\ served < MaxPosts
    /\ \E r \in CheckpointsPostRequests :
         LET out == CheckpointsHandler_post(r)
         IN  /\ req' = r
             /\ resp' = out.resp
             /\ log' = out.log
    /\ served' = served + 1
    /\ UNCHANGED <<cwd, fs, data, handled, inflight, accepted>>
    /\ UNCHANGED assetVars

NextFiles == Get

NextHandlers == Upload \/ Interrupt \/ CheckpointsGet \/ CheckpointsPost

SpecHandlers == InitHandlers /\ [][NextHandlers]_vars

NextExport == Post

SpecExport == InitExport /\ [][NextExport]_vars

SpecFiles == InitFiles /\ [][NextFiles]_vars

NextAssets == Tick \/ LoadExtension \/ Restart

SpecAssets == InitAssets /\ [][NextAssets]_vars

\* A request arrives while others are in flight: its handler is scheduled.
Arrive ==
    /\ \E i \in Slots, k \in ConcurrentRequests :
         /\ inflight.slots[i].state = "none"
         /\ \A j \in Slots : j < i => inflight.slots[j].state # "none"
         /\ inflight' = [inflight EXCEPT !.slots[i] =
                           [state |-> "pending", kind |-> k.kind, req |-> k.req,
                            resp |-> NoResponse]]
    /\ UNCHANGED <<cwd, fs, data, req, resp, log, served, handled, accepted>>
    /\ UNCHANGED assetVars

(* The event loop runs the handler of one request in flight, from where it
   is to where it suspends or ends.  An upload that suspended after
   open(file_path, "wb") has created or truncated its file; it writes the body
   when it goes on. *)
Run ==
    /\ \E i \in Slots :
         LET s == inflight.slots[i]
             whole == Serve(fs, data, cwd, s.kind, s.req)
             target == s.resp.body.path
         IN  /\ s.state \in {"pending", "suspended"}
             /\ IF s.state = "suspended"
                THEN /\ fs' = [fs EXCEPT ![target] = "file"]
                     /\ data' = [data EXCEPT ![target] = s.req.part.body]
                     /\ inflight' = [inflight EXCEPT !.slots[i].state = "done"]
                ELSE IF s.kind = "upload" /\ whole.resp.status = 200 /\ Suspends("open")
                THEN /\ fs' = whole.fs
                     /\ data' = [data EXCEPT ![whole.resp.body.path] = NoBytes]
                     /\ inflight' = [inflight EXCEPT !.slots[i].state = "suspended",
                                                     !.slots[i].resp = whole.resp]
                ELSE /\ fs' = whole.fs
                     /\ data' = whole.data
                     /\ inflight' = [inflight EXCEPT !.slots[i].state = "done",
                                                     !.slots[i].resp = whole.resp]
    /\ UNCHANGED <<cwd, req, resp, log, served, handled, accepted>>
    /\ UNCHANGED assetVars

NextUploads == UploadNext

SpecUploads == InitHandlers /\ [][NextUploads]_vars

NextConcurrent == Arrive \/ Run

SpecConcurrent == InitConcurrent /\ [][NextConcurrent]_vars

NextOverlap == Line

SpecOverlap == InitOverlap /\ [][NextOverlap]_vars

NextRepeat == Tick \/ StartServer

SpecRepeat == InitRepeat /\ [][NextRepeat]_vars

----------------------------------------------------------------------------
(* Properties of ensure_extra_static_files (under SpecAssets) *)

\* A step that is an invocation of ensure_extra_static_files.
IsEnsureStep == calls' = calls + 1

\* The cache record is present with a last_check that has an age, and no empty field.
ValidRecord(c) ==
    /\ c.kind = "object"
    /\ c.last_check.kind = "aware"
    /\ c.version # "" /\ c.url # "" /\ c.sha_sum # ""
AgeOf(c, t) == t - c.last_check.t
FreshRecord(c, t) == ValidRecord(c) /\ AgeOf(c, t) < 24
NoNetworkCall(r) == r.registry_requests = 0 /\ r.downloads = 0

(* C1, as stated: with a present, valid cache record less than 24 hours old,
   an invocation makes no registry request and no archive download. *)
C1_AsStated ==
    [][(IsEnsureStep /\ FreshRecord(cache, now)) => NoNetworkCall(res')]_vars

(* C1, amended: with a present, valid cache record less than 24 hours old
   whose version is the pinned version, an invocation makes no registry
   request; if moreover vs/loader.js exists, it makes no archive download
   either. *)
C1_FreshPinnedNoNetwork ==
    [][(IsEnsureStep /\ FreshRecord(cache, now) /\ cache.version = PINNED_VERSION)
        => /\ res'.registry_requests = 0
           /\ (vs.loader => res'.downloads = 0)]_vars

C1_Witness ==
    /\ calls = 1 /\ res.branch = "reused" /\ res.outcome = "returned"
    /\ NoNetworkCall(res)

(* C2: with the cache record missing, or its last_check 24 hours old or
   older, an invocation requests the registry metadata, and if it returns
   normally the cache file holds the version, url and checksum the registry
   gave and a last_check equal to the current time. *)
C2_StaleFetchesAndRewrites ==
    [][(IsEnsureStep
        /\ (cache.kind = "absent"
            \/ (cache.kind = "object" /\ cache.last_check.kind = "aware"
                /\ AgeOf(cache, now) >= 24)))
        => /\ res'.registry_requests = 1
           /\ (res'.outcome = "returned"
               => /\ res'.fetched # NoDetails
                  /\ cache'.kind = "object"
                  /\ cache'.version = res'.fetched[1]
                  /\ cache'.url = res'.fetched[2]
                  /\ cache'.sha_sum = res'.fetched[3]
                  /\ cache'.last_check = [kind |-> "aware", t |-> now])]_vars

C2_Witness ==
    /\ calls = 1 /\ res.branch = "expired" /\ res.outcome = "returned"
    /\ now = 24 /\ cache.last_check.t = 24 /\ res.registry_requests = 1

(* C3: whenever the cache record is not reused (absent, expired, invalid, or
   of a version other than the pinned one), an invocation that returns
   normally has queried the registry, downloaded the archive the registry
   names, verified its checksum and replaced vs by the archive's copy. *)
C3_NotReusedDownloads ==
    [][(IsEnsureStep
        /\ ~(FreshRecord(cache, now) /\ cache.version = PINNED_VERSION)
        /\ res'.outcome = "returned")
        => /\ res'.registry_requests = 1
           /\ res'.downloads = 1
           /\ res'.download_url = res'.fetched[2]
           /\ Sha1(res'.archive) = res'.fetched[3]
           /\ vs' = [exists |-> TRUE, loader |-> TRUE, content |-> Sha1(res'.archive)]]_vars

\* The archive received is not the one the details name.
ShaMismatch(r) ==
    /\ r.downloads >= 1 /\ r.archive.status = "ok"
    /\ Sha1(r.archive) # r.details[3]

(* C4, as stated: if the SHA-1 of the downloaded archive differs from the
   checksum of the details, the invocation raises RuntimeError, nothing is
   extracted, vs and min-maps are not changed and the cache file is not
   rewritten. *)
C4_AsStated ==
    [][(IsEnsureStep /\ ShaMismatch(res'))
        => /\ res'.outcome = "RuntimeError"
           /\ ~res'.extracted
           /\ vs' = vs /\ minmaps' = minmaps /\ cache' = cache]_vars

(* C4, amended: if the SHA-1 of the downloaded archive differs from the
   checksum of the details, the invocation raises RuntimeError, nothing is
   extracted, the cache file is not rewritten, min-maps is not changed, and
   vs is not changed except that vs/loader.js, if it was there, has been
   deleted by the cache check. *)
C4_MismatchChangesOnlyLoader ==
    [][(IsEnsureStep /\ ShaMismatch(res'))
        => /\ res'.outcome = "RuntimeError"
           /\ ~res'.extracted
           /\ vs' = [vs EXCEPT !.loader = FALSE]
           /\ minmaps' = minmaps /\ cache' = cache]_vars

C4_Witness ==
    /\ calls = 1 /\ ShaMismatch(res) /\ res.outcome = "RuntimeError"
    /\ res.branch = "expired" /\ vs.exists /\ ~vs.loader

(* C5: if getting the package details or downloading the archive raises, the
   invocation raises RuntimeError without writing the cache file; and an
   invocation makes at most one registry request and at most one archive
   download. *)
C5_FailureIsFatalNoRetry ==
    [][IsEnsureStep
        => /\ res'.registry_requests <= 1
           /\ res'.downloads <= 1
           /\ (res'.raised_in \in {"details", "download"}
               => res'.outcome = "RuntimeError" /\ cache' = cache)]_vars

C5_Witness ==
    /\ calls = 1 /\ res.raised_in = "download" /\ res.archive.status = "error"
    /\ res.outcome = "RuntimeError" /\ res.downloads = 1

(* C6: whenever an invocation has returned normally, vs/loader.js exists and
   the cache file holds last_check, version, url and sha_sum. *)
C6_ReturnedMeansPresent ==
    res.outcome = "returned"
    => /\ vs.exists /\ vs.loader
       /\ cache.kind = "object"
       /\ cache.last_check.kind = "aware"
       /\ cache.version # "" /\ cache.url # "" /\ cache.sha_sum # ""

\* An invocation on a record without last_check has returned normally.
C6_Witness ==
    /\ calls = 1 /\ res.branch = "bad_last_check" /\ res.outcome = "returned"
    /\ vs.loader /\ cache.kind = "object"

(* C7: routes are added to the web application only by a load whose
   ensure_extra_static_files returned normally; if it raises, the load fails
   and adds no handler. *)
C7_RoutesOnlyAfterAssets ==
    [][/\ (IsEnsureStep /\ res'.outcome # "returned")
          => (handlers' = handlers /\ ext' = "failed")
       /\ ~(handlers' \subseteq handlers)
          => (IsEnsureStep /\ res'.outcome = "returned" /\ ext' = "loaded")]_vars

C7_Witness ==
    /\ ext = "failed" /\ handlers = {} /\ res.outcome = "RuntimeError"

----------------------------------------------------------------------------
(* Properties of GET /waldiez/files (under SpecFiles) *)

\* A step that serves the request r.
Serves(r) == served' = served + 1 /\ req' = r

\* An optional argument that is present and not empty.
HasValue(o) == o.some /\ Len(o.val) > 0

\* GET /files?path=p from an authenticated client.
PathRequest(p) ==
    [method |-> "GET", auth |-> TRUE, path |-> [some |-> TRUE, val |-> p],
     view |-> [some |-> FALSE, val |-> <<>>], other |-> FALSE]

(* C8: GET /files?path=p is answered 200 with the absolute path of root/p,
   for every p such that root/p is an existing regular file. *)
C8_ExistingFileUnderRoot ==
    [][\A n \in Names :
          (Serves(PathRequest(<<n>>)) /\ fs[<<ROOT_DIR, n>>] = "file")
          => /\ resp'.status = 200
             /\ resp'.body.kind = "json"
             /\ resp'.body.path = <<ROOT_DIR, n>>]_vars

\* The absolute path that p resolved against the server root names.
UnderRoot(p) == IF Len(p) = 2 THEN p ELSE <<ROOT_DIR>> \o p

(* C9: GET /files?path=p is answered 404, with no path, whenever p resolved
   against the server root does not name an existing regular file. *)
C9_NotFound ==
    [][\A p \in ArgValues \ {<<>>} :
          (Serves(PathRequest(p)) /\ fs[UnderRoot(p)] # "file")
          => /\ resp'.status = 404
             /\ resp'.body.kind = "none"]_vars

(* C10: GET /files with neither a non-empty path nor a non-empty view
   argument is answered 400, with no path. *)
C10_NoPathNoView ==
    [][(served' = served + 1 /\ req'.method = "GET" /\ req'.auth
        /\ ~HasValue(req'.path) /\ ~HasValue(req'.view))
        => /\ resp'.status = 400
           /\ resp'.body.kind = "none"]_vars

\* A request with an empty path argument and an unrelated one was refused.
C10_Witness ==
    /\ served > 0 /\ req.method = "GET" /\ req.auth
    /\ req.path = [some |-> TRUE, val |-> <<>>] /\ ~req.view.some /\ req.other
    /\ resp.status = 400

----------------------------------------------------------------------------
(* Properties of POST /waldiez/files (under SpecExport) *)

\* A step that serves a POST /waldiez/files of an authenticated client.
IsPostStep == served' = served + 1 /\ req'.method = "POST" /\ req'.auth

\* The regular file that the path p of a request names, if any.
Resolved(f, c, p) ==
    IF KindOf(f, abspath(c, p)) = "file" THEN abspath(c, p)
    ELSE IF KindOf(f, UnderRoot(p)) = "file" THEN UnderRoot(p)
    ELSE <<>>
\* An entry of "files" that is a string ending in .waldiez and names a file.
ValidEntry(f, c, e) ==
    e.str /\ e.val # <<>> /\ LastDot(e.val[Len(e.val)]) = ".waldiez"
    /\ Resolved(f, c, e.val) # <<>>

(* The source files of the valid entries that the exporter answers with
   success, in the order of the entries. *)
RECURSIVE ExportedSources(_, _, _, _)
ExportedSources(f, c, entries, answers) ==
    IF entries = <<>> THEN <<>>
    ELSE IF ~ValidEntry(f, c, Head(entries))
    THEN ExportedSources(f, c, Tail(entries), answers)
    ELSE (IF Head(answers) = "ok" THEN <<Resolved(f, c, Head(entries).val)>> ELSE <<>>)
         \o ExportedSources(f, c, Tail(entries), Tail(answers))

\* The output of the source file q: beside it, with the requested extension.
OutputOf(q, e) == <<q[1], Stem(q[2]) \o "." \o e>>

(* C11: a 200 answer of POST /waldiez/files lists one path for each entry
   that is a string ending in .waldiez, names an existing file and was
   exported with success, in the order of the request; each listed path has
   the name of its source with the requested extension, and the output file
   exists beside the source. *)
C11_ListsExportedInOrder ==
    [][(IsPostStep /\ resp'.status = 200)
       => LET sources == ExportedSources(fs, cwd, req'.files.list, req'.exporter)
              listed == resp'.body.files
          IN  /\ Len(listed) = Len(sources)
              /\ \A i \in 1..Len(sources) :
                    /\ listed[i][Len(listed[i])] = OutputOf(sources[i], req'.extension)[2]
                    /\ fs'[OutputOf(sources[i], req'.extension)] = "file"]_vars

\* Two files of two directories were exported by one request, in its order.
C11_Witness ==
    /\ served = 1 /\ req.method = "POST" /\ resp.status = 200
    /\ cwd = ROOT_DIR
    /\ req.files.list = <<Str(<<"/work", "example.waldiez">>), Str(<<"example.waldiez">>)>>
    /\ Len(resp.body.files) = 2
    /\ fs[<<"/work", "example.ipynb">>] = "file"
    /\ fs[<<ROOT_DIR, "example.ipynb">>] = "file"

(* C12: every path listed by POST /waldiez/files is relative, and names the
   exported file when it is read from the working directory of the server,
   wherever the source file is. *)
C12_ListedRelativeToCwd ==
    [][(IsPostStep /\ resp'.status = 200)
       => LET sources == ExportedSources(fs, cwd, req'.files.list, req'.exporter)
              listed == resp'.body.files
          IN  \A i \in 1..Len(listed) :
                 /\ ~isabs(listed[i])
                 /\ i <= Len(sources)
                 /\ <<cwd>> \o listed[i] = OutputOf(sources[i], req'.extension)]_vars

\* No entry of the files field of r is a string ending in .waldiez that names a file.
NoValidEntry(f, c, r) ==
    \A i \in 1..Len(r.files.list) : ~ValidEntry(f, c, r.files.list[i])

(* C13: POST /waldiez/files is answered 400 and writes no file when the body
   is absent or empty, when it is not a JSON object, when the files field is
   absent, not a list or empty, and when no entry of the list is a string
   ending in .waldiez that names an existing file. *)
C13_InvalidInputIs400 ==
    [][(IsPostStep /\ (\/ req'.body # "object"
                       \/ req'.files.kind # "list"
                       \/ NoValidEntry(fs, cwd, req')))
       => (resp'.status = 400 /\ fs' = fs /\ data' = data)]_vars

(* C14: POST /waldiez/files with a non-empty JSON object whose extension is
   neither "py" nor "ipynb" (or is absent) is answered 400 with the reason
   "Invalid extension", whatever the files field holds, and writes no file. *)
C14_InvalidExtension ==
    [][(IsPostStep /\ req'.body = "object" /\ req'.extension \notin {"py", "ipynb"})
       => /\ resp'.status = 400
          /\ resp'.reason = "Invalid extension"
          /\ fs' = fs /\ data' = data]_vars

\* A request without extension and without files was refused for its extension.
C14_Witness ==
    /\ served = 1 /\ req.method = "POST" /\ req.auth /\ req.body = "object"
    /\ req.extension = "" /\ req.files.kind = "absent"
    /\ resp.status = 400 /\ resp.reason = "Invalid extension"

\* The lines logged for a file that the exporter could not load or export.
IsFailureLine(l) ==
    l \in {"Error loading file", "Error exporting to .py", "Error exporting to .ipynb"}

(* C15: when at least one entry of a POST /waldiez/files passes validation
   the answer is 200, even when no file is exported; a file that fails to
   load or to export is logged and left out of the answer, and the other
   files of the batch are exported. *)
C15_FailuresOmittedNot400 ==
    [][(IsPostStep /\ req'.body = "object" /\ req'.extension \in {"py", "ipynb"}
        /\ ~NoValidEntry(fs, cwd, req'))
       => LET valid(e) == ValidEntry(fs, cwd, e)
              sources == ExportedSources(fs, cwd, req'.files.list, req'.exporter)
          IN  /\ resp'.status = 200
              /\ Len(resp'.body.files) = Len(sources)
              /\ \A i \in 1..Len(sources) :
                    fs'[OutputOf(sources[i], req'.extension)] = "file"
              /\ Len(SelectSeq(log', IsFailureLine))
                   = Len(SelectSeq(req'.files.list, valid)) - Len(sources)]_vars

\* The first file of a batch failed to load and the second one was exported.
C15_Witness ==
    /\ served = 1 /\ req.method = "POST" /\ resp.status = 200
    /\ req.files.list = <<Str(<<"/work", "example.waldiez">>), Str(<<"example.waldiez">>)>>
    /\ cwd = ROOT_DIR
    /\ req.exporter = <<"load_error", "ok">>
    /\ Len(resp.body.files) = 1
    /\ log = <<"Error loading file">>
    /\ fs[<<ROOT_DIR, "example.py">>] = "file" /\ fs[<<"/work", "example.py">>] = "none"

----------------------------------------------------------------------------
(* Properties of the other handlers (under SpecHandlers) *)

(* C16: a handler that meets an error while it serves a request answers
   with an HTTP error: a status code of 400 or more and a reason; none
   answers with success after an error. *)
C16_ErrorsSurface ==
    [][(served' = served + 1 /\ log' # <<>>)
       => (resp'.status >= 400 /\ resp'.reason # "")]_vars

\* A step that serves a POST /waldiez/upload of an authenticated client.
IsUploadStep == served' = served + 1 /\ req'.route = "waldiez/upload" /\ req'.auth

\* The name under which the upload r is saved, and whether it may be saved.
SavedName(r) == sanitize_filename(r.part.filename)
Allowed(r) == r.part.some /\ LastDot(SavedName(r)) \in ALLOWED_EXTENSIONS

(* C17 as stated: every POST /waldiez/upload of a file whose sanitized name
   ends with an allowed extension is answered 200 with the path
   root/<sanitized name>, and the file there then holds the uploaded body. *)
C17_AsStated ==
    [][(IsUploadStep /\ Allowed(req'))
       => /\ resp'.status = 200
          /\ resp'.body.path = <<ROOT_DIR, SavedName(req')>>
          /\ fs'[<<ROOT_DIR, SavedName(req')>>] = "file"
          /\ data'[<<ROOT_DIR, SavedName(req')>>] = req'.part.body]_vars

(* C17: a POST /waldiez/upload of a file whose sanitized name ends with an
   allowed extension, when root/<sanitized name> is not a directory, is
   answered 200 with that absolute path, a direct child of the root, and the
   file there then holds the uploaded body; when it is a directory the
   answer is 500 and nothing is written. *)
C17_UploadSaved ==
    [][(IsUploadStep /\ Allowed(req'))
       => LET P == <<ROOT_DIR, SavedName(req')>>
          IN  IF fs[P] # "dir"
              THEN /\ resp'.status = 200
                   /\ resp'.body.path = P
                   /\ fs'[P] = "file"
                   /\ data'[P] = req'.part.body
              ELSE resp'.status = 500 /\ fs' = fs /\ data' = data]_vars

\* A file named with separators was saved in the root, over an older file.
C17_Witness ==
    /\ served = 1 /\ req.method = "POST" /\ req.route = "waldiez/upload" /\ req.auth
    /\ cwd # ROOT_DIR
    /\ req.part = Part("../dummy.txt", "hello")
    /\ resp.status = 200 /\ resp.body.path = <<ROOT_DIR, "..dummy.txt">>
    /\ data[<<ROOT_DIR, "..dummy.txt">>] = "hello"

(* C18: POST /waldiez/upload is answered 400 and writes no file when the
   request has no part named file, or when the sanitized file name does not
   end, letter case included, with an allowed extension; for a .png file the
   reason is "File extension not allowed". *)
C18_UploadRefused ==
    [][(IsUploadStep /\ ~Allowed(req'))
       => /\ resp'.status = 400
          /\ fs' = fs /\ data' = data
          /\ (req'.part.filename = "blank.png"
              => resp'.reason = "File extension not allowed")]_vars

\* An upload named with the extension in capitals was refused.
C18_Witness ==
    /\ served = 1 /\ req.method = "POST" /\ req.route = "waldiez/upload" /\ req.auth
    /\ req.part.some /\ req.part.filename = "DUMMY.TXT"
    /\ resp.status = 400 /\ resp.reason = "File extension not allowed"
    /\ fs[<<ROOT_DIR, "DUMMY.TXT">>] = "none"

----------------------------------------------------------------------------
(* Properties of GET /waldiez/files?view= (under SpecFiles) *)

\* GET /files?view=p from an authenticated client.
ViewRequest(p) ==
    [method |-> "GET", auth |-> TRUE, path |-> [some |-> FALSE, val |-> <<>>],
     view |-> [some |-> TRUE, val |-> p], other |-> FALSE]

(* C19: GET /files?view=p, for a path p that is not empty, is answered with
   the bytes of the file that p resolved against the server root names, as
   image/png; when that is not an existing regular file the answer is 404
   and no byte of a body is written. *)
C19_ViewSendsFile ==
    [][\A p \in ArgValues \ {<<>>} :
          Serves(ViewRequest(p))
          => IF fs[UnderRoot(p)] = "file"
             THEN /\ resp'.status = 200
                  /\ resp'.body.kind = "bytes"
                  /\ resp'.body.ctype = "image/png"
                  /\ resp'.body.data = data[UnderRoot(p)]
             ELSE resp'.status = 404 /\ resp'.body = NoBody]_vars

----------------------------------------------------------------------------
(* The cache record and the vs directory (under SpecAssets) *)

\* The record c names the archive that the directory v was extracted from.
Describes(c, v) ==
    \E a \in Archives :
       v.content = Sha1(a) /\ c.sha_sum = Sha1(a) /\ c.version = a.ver

\* The records c and d name the same version, url and checksum.
SameDetails(c, d) ==
    /\ c.kind = "object" /\ d.kind = "object"
    /\ c.version = d.version /\ c.url = d.url /\ c.sha_sum = d.sha_sum

(* C20: after a normal return of ensure_extra_static_files the version and
   checksum of the cache record are those of the archive that the vs
   directory was extracted from: either the invocation extracted that
   archive, or it kept both the record and the directory it found. *)
C20_RecordDescribesVs ==
    [][(IsEnsureStep /\ res'.outcome = "returned")
       => \/ Describes(cache', vs')
          \/ (SameDetails(cache, cache') /\ vs'.content = vs.content)]_vars

----------------------------------------------------------------------------
(* Successive invocations on one static directory (under SpecRepeat) *)

(* C21: every normal return of ensure_extra_static_files leaves a cache
   record whose last_check is the current time, also when the record was
   reused; and an invocation that follows a normal return by less than a
   day, on a record of the pinned version, makes no registry request. *)
C21_LastCheckRefreshed ==
    [][IsEnsureStep
       => /\ (res'.outcome = "returned" => cache'.last_check = IsoFormat(now))
          /\ (res.outcome = "returned" /\ now - res.at < OneDay
              /\ cache.version = PINNED_VERSION)
             => res'.registry_requests = 0]_vars

(* Three starts twelve hours apart: the last one, a day after the first,
   reused the record that the second one had refreshed. *)
C21_Witness ==
    /\ calls = 3 /\ now = 2 * TickHours /\ res.at = now
    /\ res.outcome = "returned" /\ res.branch = "reused"
    /\ res.registry_requests = 0
    /\ cache.last_check = IsoFormat(now)

----------------------------------------------------------------------------
(* The authentication guard (under SpecHandlers) *)

(* C22: a request that is not authenticated never causes a file to be read,
   exported or written: a request without authentication leaves every file
   and every file's content as it was. *)
C22_UnauthenticatedNoEffect ==
    [][served' = served + 1 /\ ~req'.auth => fs' = fs /\ data' = data]_vars

----------------------------------------------------------------------------
(* Server processes that start together (under SpecOverlap) *)

Failed(pr) == pr.pc = "done" /\ (pr.outcome = "RuntimeError" \/ pr.missing)

(* C23: ensure_extra_static_files takes no lock.  With the registry and the
   archive in order, an invocation that no other invocation overlaps
   returns and leaves loader.js in place; an invocation fails, or writes
   the record while loader.js is missing, only when another one ran on the
   directory at the same time. *)
C23_OnlyOverlapFails ==
    \A p \in Procs : Failed(procs[p]) => procs[p].overlapped

(* One invocation has raised RuntimeError and another has returned: the one
   copied vs after the other had removed it and before the other copied. *)
C23_Witness ==
    \E p, q \in Procs :
        /\ procs[p].pc = "done" /\ procs[p].outcome = "RuntimeError"
        /\ procs[q].pc = "done" /\ procs[q].outcome = "returned"

(* An invocation has returned and written the record while loader.js was
   missing: the other one deleted it after the check of line 70. *)
C23_WroteWhileMissing ==
    \E p \in Procs : procs[p].pc = "done" /\ procs[p].outcome = "returned" /\ procs[p].missing

----------------------------------------------------------------------------
(* Concurrent requests in one server process (under SpecConcurrent) *)

\* The requests answered, and the orders in which they can be served one by one.
Answered == {i \in Slots : inflight.slots[i].state = "done"}
Orders(S) == {o \in [1..Cardinality(S) -> S] : \A a, b \in DOMAIN o : o[a] = o[b] => a = b}

\* The files and the answers after the requests of order o served one after the other.
RECURSIVE Serially(_, _, _, _)
Serially(o, f, d, answers) ==
    IF o = <<>> THEN [fs |-> f, data |-> d, answers |-> answers]
    ELSE LET s == inflight.slots[Head(o)]
             out == Serve(f, d, cwd, s.kind, s.req)
         IN  Serially(Tail(o), out.fs, out.data, answers @@ (Head(o) :> out.resp))

SeriallyFromStart(o) == Serially(o, inflight.at_start.fs, inflight.at_start.data, <<>>)

Reached == [fs |-> fs, data |-> data,
            answers |-> [i \in Answered |-> inflight.slots[i].resp]]

Quiescent == \A i \in Slots : inflight.slots[i].state \in {"none", "done"}

(* C24: requests handled concurrently by one server process do not
   interfere: once they are all answered, the answers and the files are
   those of the same requests served one after the other in some order. *)
C24_Serializable ==
    Quiescent => \E o \in Orders(Answered) : SeriallyFromStart(o) = Reached

(* Two concurrent requests are answered, and the order matters: served in
   the other order they would have given other answers or other files. *)
C24_Witness ==
    /\ Quiescent
    /\ Cardinality(Answered) = MaxInflight
    /\ \E o \in Orders(Answered) : SeriallyFromStart(o) # Reached
    /\ \E i, j \in Answered :
         /\ inflight.slots[i].kind = "upload" /\ inflight.slots[i].resp.status = 200
         /\ inflight.slots[j].kind = "get" /\ inflight.slots[j].resp.status = 200

----------------------------------------------------------------------------
(* The archive's content (under SpecAssets) *)

\* The archive received is the one the details name, and it has no package/min/vs.
NoMinVs(r) ==
    /\ r.downloads >= 1 /\ r.archive.status = "ok"
    /\ Sha1(r.archive) = r.details[3]
    /\ r.archive.kind = "novs"

(* C25, as stated: if the downloaded archive passes the checksum but does not
   contain package/min/vs, the invocation raises RuntimeError, and vs,
   min-maps and the cache file are left unchanged. *)
C25_AsStated ==
    [][(IsEnsureStep /\ NoMinVs(res'))
        => /\ res'.outcome = "RuntimeError"
           /\ vs' = vs /\ minmaps' = minmaps /\ cache' = cache]_vars

(* C25, amended: if the downloaded archive passes the checksum but does not
   contain package/min/vs, the invocation raises RuntimeError, min-maps and
   the cache file are left unchanged, and vs is left unchanged except that
   vs/loader.js, if it was there, has been deleted by the cache check. *)
C25_NoMinVsChangesOnlyLoader ==
    [][(IsEnsureStep /\ NoMinVs(res'))
        => /\ res'.outcome = "RuntimeError" /\ res'.raised_in = "download"
           /\ res'.extracted
           /\ vs' = [vs EXCEPT !.loader = FALSE]
           /\ minmaps' = minmaps /\ cache' = cache]_vars

(* An archive without package/min/vs was received for an expired record;
   the old vs directory is still there, without loader.js. *)
C25_Witness ==
    /\ calls = 1 /\ NoMinVs(res) /\ res.outcome = "RuntimeError"
    /\ vs.exists /\ ~vs.loader /\ vs.content = Original /\ minmaps.exists

----------------------------------------------------------------------------
(* Records that cannot be used (under SpecAssets) *)

(* The record is not JSON or not an object, its last_check is missing,
   unparseable or without a timezone, or its version, url or sha_sum is
   missing or empty. *)
Unusable(c) ==
    \/ c.kind \in {"badjson", "notobject"}
    \/ /\ c.kind = "object"
       /\ \/ c.last_check.kind \in {"missing", "garbage", "naive"}
          \/ c.version = "" \/ c.url = "" \/ c.sha_sum = ""

\* The invocation went the way it goes without a record.
LikeAbsent(r) == r.branch \in {"unreadable", "bad_last_check", "empty_field", "naive"}

(* C26: a cache record that cannot be used never makes the invocation fail
   by itself.  It is treated like an absent record: vs/loader.js is deleted,
   the registry is queried, and unless that fails the archive is downloaded;
   when the archive is the complete one the details name, the invocation
   returns with the new vs and a new record. *)
C26_UnusableRecordRefetched ==
    [][(IsEnsureStep /\ Unusable(cache))
        => /\ LikeAbsent(res')
           /\ res'.registry_requests = 1
           /\ (res'.raised_in = "details"
               => res'.downloads = 0 /\ vs' = [vs EXCEPT !.loader = FALSE])
           /\ (res'.raised_in # "details"
               => /\ res'.downloads = 1
                  /\ res'.details = res'.fetched
                  /\ res'.download_url = res'.fetched[2])
           /\ (/\ res'.raised_in # "details"
               /\ res'.archive.status = "ok" /\ res'.archive.kind \in {"full", "nomaps"}
               /\ Sha1(res'.archive) = res'.fetched[3])
              => /\ res'.outcome = "returned"
                 /\ vs' = [exists |-> TRUE, loader |-> TRUE, content |-> Sha1(res'.archive)]
                 /\ cache' = DetailsJson(now, res'.fetched)]_vars

(* A record with a last_check without a timezone, and loader.js in place:
   the invocation asked the registry, downloaded, and returned. *)
C26_Witness ==
    /\ calls = 1 /\ res.branch = "naive" /\ res.outcome = "returned"
    /\ res.registry_requests = 1 /\ res.downloads = 1
    /\ vs.content = Sha1(res.archive) /\ cache.last_check.kind = "aware"

----------------------------------------------------------------------------
(* Uploads that follow each other (under SpecUploads) *)

\* The accepted uploads of the name n, and the last element of a sequence.
UploadsOf(n) == SelectSeq(accepted, LAMBDA u : u.name = n)
Last(q) == q[Len(q)]

(* C27: POST /upload never refuses or renames an upload because the target
   file exists.  After any sequence of accepted uploads, server-root/<name>
   holds the body of the most recent accepted upload of <name>; an upload of
   an allowed name whose target is an existing file is accepted, and an
   accepted upload changes no file of another name. *)
C27_LastUploadWins ==
    /\ [](\A q \in UploadPaths :
            UploadsOf(q[2]) # <<>>
            => /\ q[1] = ROOT_DIR /\ fs[q] = "file"
               /\ data[q] = Last(UploadsOf(q[2])).body)
    /\ [][served' = served + 1
          => LET name == sanitize_filename(req'.part.filename)
                 target == <<ROOT_DIR, name>>
             IN  /\ (req'.part.some /\ is_allowed_extension(name) /\ KindOf(fs, target) = "file")
                    => resp'.status = 200
                 /\ resp'.status = 200
                    => /\ resp'.body.path = target
                       /\ \A q \in UploadPaths \ {target} :
                            fs'[q] = fs[q] /\ data'[q] = data[q]]_vars

(* Two accepted uploads of one name with different bodies: the file holds
   the second body. *)
C27_Witness ==
    /\ Len(accepted) = 2
    /\ accepted[1].name = accepted[2].name /\ accepted[1].body # accepted[2].body
    /\ data[<<ROOT_DIR, accepted[2].name>>] = accepted[2].body
    /\ accepted[2].body = "hello"

----------------------------------------------------------------------------
(* The min-maps directory (under SpecAssets) *)

\* The archive received is the one the details name, and it has package/min/vs.
Copied(r) ==
    /\ r.downloads >= 1 /\ r.archive.status = "ok"
    /\ Sha1(r.archive) = r.details[3]
    /\ r.archive.kind \in {"full", "nomaps", "noloader"}

(* C28: when the downloaded archive contains no min-maps directory, the
   download still succeeds and the min-maps directory of the static
   directory is as it was; when the archive contains one, the min-maps
   directory is the archive's copy. *)
C28_MinMapsFollowArchive ==
    [][(IsEnsureStep /\ Copied(res'))
        => /\ res'.raised_in # "download"
           /\ vs'.content = Sha1(res'.archive)
           /\ (res'.archive.kind = "nomaps"
               => res'.outcome = "returned" /\ minmaps' = minmaps)
           /\ (res'.archive.kind \in {"full", "noloader"}
               => minmaps' = [exists |-> TRUE, content |-> Sha1(res'.archive)])]_vars

(* An archive without min-maps was copied into a static directory that had
   a min-maps directory: vs is the archive's, min-maps the old one. *)
C28_Witness ==
    /\ calls = 1 /\ Copied(res) /\ res.archive.kind = "nomaps"
    /\ res.outcome = "returned"
    /\ vs.content = Sha1(res.archive)
    /\ minmaps = [exists |-> TRUE, content |-> Original]

----------------------------------------------------------------------------
(* The temporary directory (under SpecAssets) *)

(* C29: the temporary directory into which the archive is extracted is
   removed before _download_monaco_editor returns or raises, on every path
   that created it. *)
C29_TmpDirRemoved ==
    [][(IsEnsureStep /\ res'.downloads >= 1 /\ res'.extracted) => ~res'.tmp_left]_vars

====
